---- MODULE Spec2Model ----
(***************************************************************************)
(* Catalog query layer of saleor/graphql/product/types.py: the category    *)
(* resolver with its request-scoped ancestor cache, the product and        *)
(* category-products resolvers, and the attribute resolver.                *)
(*                                                                         *)
(* The database is read-only here: the tables (parent, products, visible,  *)
(* product_types, product_variant_types) are chosen by Init and never      *)
(* change.  The mutable state is the set of request contexts and the last  *)
(* resolver call with its result.                                          *)
(***************************************************************************)
EXTENDS Integers, Sequences, FiniteSets

VARIABLES
    parent,                 \* Category table: parent[c] is the parent pk of c, NoPk for a root
    products,               \* Product table: products[p] = [category, product_type]
    visible,                \* visible[u]: pks of products_visible_to_user(u)
    product_types,          \* product_types[a]: product types having attribute a as product attribute
    product_variant_types,  \* product_variant_types[a]: product types having a as variant attribute
    contexts,               \* request contexts: contexts[c] = [user, has_cache, ancestors]
    call                    \* the last resolver call: [op, ctx, arg, ret]

vars == <<parent, products, visible, product_types, product_variant_types, contexts, call>>

db == <<parent, products, visible, product_types, product_variant_types>>

-----------------------------------------------------------------------------
(* Bounds of the three fixtures.                                           *)

MaxCategories == 3
MaxCatalogCategories == 2
MaxProducts == 2
MaxAttrCategories == 2
MaxAttrProducts == 1
MaxAttributes == 1

(* A falsy primary key: None.  Primary keys of stored rows start at 1.     *)
NoPk == 0

Context == {"A", "B"}
User == {"customer", "staff"}
ProductType == {1, 2}

(* request.user of each context. *)
context_user(c) == IF c = "A" THEN "customer" ELSE "staff"

Category == DOMAIN parent
Product == DOMAIN products
Attribute == DOMAIN product_types

-----------------------------------------------------------------------------
(* Results.  Every resolver result is a record of one shape:               *)
(*   status    "ok" a value, "none" the absent value None, "raise" an      *)
(*             exception left the resolver                                 *)
(*   pk        the pk of the category or product returned                  *)
(*   ancestors the ancestor sequence                                       *)
(*   products  the set of product pks of a product queryset                *)
(*   rows      the attribute pks of an attribute queryset, one per row     *)

Ret(status, pk, ancestors, prods, rows) ==
    [status |-> status, pk |-> pk, ancestors |-> ancestors,
     products |-> prods, rows |-> rows]

None == Ret("none", NoPk, <<>>, {}, <<>>)
Raise == Ret("raise", NoPk, <<>>, {}, <<>>)
OkObject(c) == Ret("ok", c, <<>>, {}, <<>>)
OkAncestors(s) == Ret("ok", NoPk, s, {}, <<>>)
OkProducts(ps) == Ret("ok", NoPk, <<>>, ps, <<>>)
OkRows(r) == Ret("ok", NoPk, <<>>, {}, r)

-----------------------------------------------------------------------------
(* The category tree (MPTT).                                               *)

RECURSIVE Up(_, _, _)
(* The node reached from c by n parent links in table p (NoPk past the root). *)
Up(p, c, n) == IF c = NoPk \/ n = 0 THEN c ELSE Up(p, p[c], n - 1)

Acyclic(p) == \A c \in DOMAIN p : Up(p, c, Len(p)) = NoPk

Forests(n) == {p \in [1..n -> 0..n] : Acyclic(p)}

RECURSIVE get_ancestors(_)
(* Category.get_ancestors(): the direct traversal, root first, parent last. *)
get_ancestors(c) ==
    IF parent[c] = NoPk THEN <<>>
    ELSE Append(get_ancestors(parent[c]), parent[c])

get_children(c) == {d \in Category : parent[d] = c}

Range(s) == {s[i] : i \in DOMAIN s}

(* Category.get_descendants(include_self) *)
get_descendants(c, include_self) ==
    {d \in Category : c \in Range(get_ancestors(d))}
        \cup (IF include_self THEN {c} ELSE {})

-----------------------------------------------------------------------------
(* CategoryAncestorsCache (saleor/graphql/utils.py): a mapping from the    *)
(* pk of every node of the resolved category's subtree to that node's      *)
(* ancestors, filled top-down from the resolved category so that no node   *)
(* needs a traversal of its own.  It is kept as the set of its items       *)
(* <<pk, ancestors>>.                                                      *)

RECURSIVE populate_cache(_, _)
populate_cache(node, ancestors) ==
    {<<node, ancestors>>}
        \cup UNION {populate_cache(child, Append(ancestors, node)) :
                        child \in get_children(node)}

CategoryAncestorsCache(category) ==
    populate_cache(category, get_ancestors(category))

CacheKeys(cache) == {e[1] : e \in cache}

(* CategoryAncestorsCache.get: the lookup of a mapping; a category that is *)
(* no key of it has no value.                                              *)
CategoryAncestorsCache_get(cache, category) ==
    IF category \in CacheKeys(cache)
    THEN OkAncestors((CHOOSE e \in cache : e[1] = category)[2])
    ELSE None

-----------------------------------------------------------------------------
(* Request contexts.  has_cache says that the context carries the          *)
(* attribute CONTEXT_CACHE_NAME, a dict holding the key CACHE_ANCESTORS;   *)
(* ancestors is the CategoryAncestorsCache stored under that key.          *)

NewContext(c) == [user |-> context_user(c), has_cache |-> FALSE, ancestors |-> {}]

get_ancestors_from_cache_outer_get(category, context) ==
    IF context.has_cache
    THEN None
    ELSE OkAncestors(get_ancestors(category))

get_ancestors_from_cache(category, context) ==
    IF context.has_cache
    THEN CategoryAncestorsCache_get(context.ancestors, category)
    ELSE OkAncestors(get_ancestors(category))

setattr_cache_shared(ctxs, c, cache) ==
    [b \in DOMAIN ctxs |-> [ctxs[b] EXCEPT !.has_cache = TRUE, !.ancestors = cache]]

(* setattr(info.context, CONTEXT_CACHE_NAME, {CACHE_ANCESTORS: cache}) *)
setattr_cache(ctxs, c, cache) ==
    [ctxs EXCEPT ![c] = [@ EXCEPT !.has_cache = TRUE, !.ancestors = cache]]

(* Category.tree.filter(id=id).get_cached_trees(): the list of the         *)
(* categories with that id.                                                *)
get_cached_trees(id) == IF id \in Category THEN <<id>> ELSE <<>>

resolve_category_once(id, c) ==
    LET categories == get_cached_trees(id) IN
    IF categories # <<>>
    THEN [ret |-> OkObject(categories[1]),
          contexts |-> IF contexts[c].has_cache THEN contexts
                       ELSE setattr_cache(contexts, c,
                                          CategoryAncestorsCache(categories[1]))]
    ELSE [ret |-> None, contexts |-> contexts]

resolve_category_reset(id, c) ==
    LET categories == get_cached_trees(id) IN
    IF categories # <<>>
    THEN [ret |-> OkObject(categories[1]),
          contexts |-> setattr_cache(contexts, c,
                                     CategoryAncestorsCache(categories[1]))]
    ELSE [ret |-> None, contexts |-> [contexts EXCEPT ![c] = NewContext(c)]]

(* resolve_category(id, info) with info.context the context c: the result  *)
(* and the contexts after the call.                                        *)
resolve_category(id, c) ==
    LET categories == get_cached_trees(id) IN
    IF categories # <<>>
    THEN LET category == categories[1]
             cache == CategoryAncestorsCache(category)
         IN [ret |-> OkObject(category),
             contexts |-> setattr_cache(contexts, c, cache)]
    ELSE [ret |-> None, contexts |-> contexts]

-----------------------------------------------------------------------------
(* Product resolvers.                                                      *)

products_visible_to_user(user) == visible[user]

resolve_product_unfiltered(id, c) ==
    IF id \in Product THEN OkObject(id) ELSE None

(* resolve_product(id, info): the first visible product with that id.      *)
resolve_product(id, c) ==
    LET qs == {p \in products_visible_to_user(contexts[c].user) : p = id} IN
    IF qs # {} THEN OkObject(CHOOSE p \in qs : TRUE) ELSE None

resolve_products_subtree(category, c) ==
    OkProducts({p \in products_visible_to_user(contexts[c].user) :
                    products[p].category \in get_descendants(category, TRUE)})

(* Category.resolve_products(self, info) *)
resolve_products(category, c) ==
    LET qs == products_visible_to_user(contexts[c].user) IN
    OkProducts({p \in qs : products[p].category = category})

-----------------------------------------------------------------------------
(* Attribute resolver.  An attribute queryset is the sequence of its rows, *)
(* by attribute pk; a filter across a many-to-many relation joins, so an   *)
(* attribute has one row per pair of related rows that passes the filter.  *)

RECURSIVE Repeat(_, _)
Repeat(a, n) == IF n = 0 THEN <<>> ELSE Append(Repeat(a, n - 1), a)

(* The related rows of a LEFT OUTER JOIN: NoPk stands for NULL.            *)
Joined(related) == IF related = {} THEN {NoPk} ELSE related

RECURSIVE all_rows(_)
(* ProductAttribute.objects: one row for each attribute 1..a.              *)
all_rows(a) == IF a = 0 THEN <<>> ELSE Append(all_rows(a - 1), a)

RECURSIVE filter_rows(_, _)
(* .filter(Q(product_types__in=pts) | Q(product_variant_types__in=pts))    *)
(* over the attributes 1..a.                                               *)
filter_rows(a, pts) ==
    IF a = 0 THEN <<>>
    ELSE LET matching == {r \in Joined(product_types[a])
                                   \X Joined(product_variant_types[a]) :
                              r[1] \in pts \/ r[2] \in pts}
         IN filter_rows(a - 1, pts) \o Repeat(a, Cardinality(matching))

RECURSIVE distinct(_)
(* QuerySet.distinct(): equal rows are returned once.                      *)
distinct(rows) ==
    IF rows = <<>> THEN <<>>
    ELSE LET front == distinct(SubSeq(rows, 1, Len(rows) - 1))
             last == rows[Len(rows)]
         IN IF last \in Range(front) THEN front ELSE Append(front, last)

resolve_attributes_no_distinct(category_pk) ==
    IF category_pk # NoPk
    THEN IF category_pk \notin Category THEN Raise
         ELSE LET tree == get_descendants(category_pk, TRUE)
                  used == {products[p].product_type :
                               p \in {q \in Product : products[q].category \in tree}}
              IN OkRows(filter_rows(Len(product_types), used))
    ELSE OkRows(all_rows(Len(product_types)))

resolve_attributes_always_filter(category_pk) ==
    IF category_pk \notin Category THEN Raise
    ELSE LET tree == get_descendants(category_pk, TRUE)
             used == {products[p].product_type :
                          p \in {q \in Product : products[q].category \in tree}}
         IN OkRows(distinct(filter_rows(Len(product_types), used)))

(* resolve_attributes(category_pk) *)
resolve_attributes(category_pk) ==
    IF category_pk # NoPk
    THEN \* Category.objects.get(pk=category_pk) raises DoesNotExist
         IF category_pk \notin Category THEN Raise
         ELSE LET tree == get_descendants(category_pk, TRUE)
                  used == {products[p].product_type :
                               p \in {q \in Product : products[q].category \in tree}}
              IN OkRows(distinct(filter_rows(Len(product_types), used)))
    ELSE OkRows(distinct(all_rows(Len(product_types))))

-----------------------------------------------------------------------------
(* Operations: one resolver call each, on the context c.                   *)

Call(op, c, arg, ret) == [op |-> op, ctx |-> c, arg |-> arg, ret |-> ret]

(* Identifiers a query may carry: every stored pk and one that is not stored. *)
CategoryIds == 1..(Len(parent) + 1)
ProductIds == 1..(Len(products) + 1)

ResolveCategory(c, id) ==
    LET r == resolve_category(id, c) IN
    /\ contexts' = r.contexts
    /\ call' = Call("resolve_category", c, id, r.ret)
    /\ UNCHANGED db

(* Category.resolve_ancestors(self, info) *)
ResolveAncestors(c, category) ==
    /\ call' = Call("resolve_ancestors", c, category,
                    get_ancestors_from_cache(category, contexts[c]))
    /\ UNCHANGED <<db, contexts>>

ResolveProduct(c, id) ==
    /\ call' = Call("resolve_product", c, id, resolve_product(id, c))
    /\ UNCHANGED <<db, contexts>>

ResolveProducts(c, category) ==
    /\ call' = Call("resolve_products", c, category, resolve_products(category, c))
    /\ UNCHANGED <<db, contexts>>

ResolveAttributes(c, category_pk) ==
    /\ call' = Call("resolve_attributes", c, category_pk,
                    resolve_attributes(category_pk))
    /\ UNCHANGED <<db, contexts>>

-----------------------------------------------------------------------------
(* Specifications.                                                         *)

InitRequests ==
    /\ contexts = [c \in Context |-> NewContext(c)]
    /\ call = Call("init", "A", NoPk, None)

(* Any category forest, a fixed small catalog. *)
Init ==
    /\ parent \in Forests(MaxCategories)
    /\ products = <<[category |-> 1, product_type |-> 1]>>
    /\ visible = [u \in User |-> IF u = "staff" THEN {1} ELSE {}]
    /\ product_types = <<{1}>>
    /\ product_variant_types = <<{}>>
    /\ InitRequests

Next ==
    \/ \E c \in Context, id \in CategoryIds : ResolveCategory(c, id)
    \/ \E c \in Context, category \in Category : ResolveAncestors(c, category)
    \/ \E c \in Context, id \in ProductIds : ResolveProduct(c, id)
    \/ \E c \in Context, category \in Category : ResolveProducts(c, category)
    \/ \E c \in Context, pk \in {NoPk} \cup CategoryIds : ResolveAttributes(c, pk)

Spec == Init /\ [][Next]_vars

(* Any forest, any assignment of products to categories, any visibility.   *)
InitCatalog ==
    /\ parent \in Forests(MaxCatalogCategories)
    /\ products \in [1..MaxProducts ->
                        [category : 1..MaxCatalogCategories, product_type : {1}]]
    /\ visible \in [User -> SUBSET (1..MaxProducts)]
    /\ product_types = <<{1}>>
    /\ product_variant_types = <<{}>>
    /\ InitRequests

NextCatalog ==
    \/ \E c \in Context, id \in ProductIds : ResolveProduct(c, id)
    \/ \E c \in Context, category \in Category : ResolveProducts(c, category)

SpecCatalog == InitCatalog /\ [][NextCatalog]_vars

(* Any forest, any products, any association of attributes with product types. *)
InitAttributes ==
    /\ parent \in Forests(MaxAttrCategories)
    /\ products \in [1..MaxAttrProducts ->
                        [category : 1..MaxAttrCategories, product_type : ProductType]]
    /\ visible = [u \in User |-> 1..MaxAttrProducts]
    /\ product_types \in [1..MaxAttributes -> SUBSET ProductType]
    /\ product_variant_types \in [1..MaxAttributes -> SUBSET ProductType]
    /\ InitRequests

NextAttributes ==
    \E pk \in {NoPk} \cup CategoryIds : ResolveAttributes("A", pk)

SpecAttributes == InitAttributes /\ [][NextAttributes]_vars

-----------------------------------------------------------------------------
(* Properties.                                                             *)

(* The descendant-inclusive subtree of c, by parent links. *)
Subtree(c) == {d \in Category : \E n \in 0..Len(parent) : Up(parent, d, n) = c}

CallUser == contexts[call.ctx].user

(* C1: after a successful resolve_category(C.id) on a context, the cached  *)
(* lookup of C and of every descendant of C on that context returns the    *)
(* ancestor sequence of the direct traversal, root first and parent last;  *)
(* and every resolve_ancestors call served from the cache returned it.     *)
C1_CachedEqualsDirect ==
    /\ (call.op = "resolve_category" /\ call.ret.status = "ok") =>
          \A D \in Subtree(call.ret.pk) :
              get_ancestors_from_cache(D, contexts[call.ctx])
                  = OkAncestors(get_ancestors(D))
    /\ (/\ call.op = "resolve_ancestors"
        /\ contexts[call.ctx].has_cache
        /\ call.arg \in CacheKeys(contexts[call.ctx].ancestors)) =>
          call.ret = OkAncestors(get_ancestors(call.arg))

(* A strict descendant of the resolved category, two levels deep, was      *)
(* served from the cache.                                                  *)
C1_Witness ==
    /\ call.op = "resolve_ancestors"
    /\ contexts[call.ctx].has_cache
    /\ {call.arg, parent[call.arg]} \subseteq CacheKeys(contexts[call.ctx].ancestors)
    /\ call.ret.status = "ok"
    /\ Len(call.ret.ancestors) = 2

C3_CreatedAtMostOnce ==
    [][\A c \in Context : contexts[c].has_cache => contexts'[c] = contexts[c]]_vars

(* C3, amended: a context changes only in a successful resolve_category    *)
(* on that context, and every successful resolve_category leaves on its    *)
(* context the cache of the category it resolved.                          *)
C3_SetOnlyByResolveCategory ==
    [][/\ \A c \in Context : contexts'[c] # contexts[c] =>
              /\ call'.op = "resolve_category"
              /\ call'.ctx = c
              /\ call'.ret.status = "ok"
       /\ (call'.op = "resolve_category" /\ call'.ret.status = "ok") =>
              /\ contexts'[call'.ctx].has_cache
              /\ contexts'[call'.ctx].ancestors
                     = CategoryAncestorsCache(call'.ret.pk)]_vars

(* A resolver other than resolve_category ran on a context whose cache an  *)
(* earlier resolve_category set, while the other context has a cache of    *)
(* another category.                                                       *)
C3_Witness ==
    /\ call.op \in {"resolve_ancestors", "resolve_product",
                    "resolve_products", "resolve_attributes"}
    /\ \A c \in Context : contexts[c].has_cache
    /\ contexts["A"].ancestors # contexts["B"].ancestors

(* C4: a lookup by an identifier that matches nothing returns None (or an  *)
(* empty result) and does not raise.                                       *)
C4_LookupsNeverRaise ==
    /\ (call.op = "resolve_category" /\ call.arg \notin Category) =>
          call.ret = None
    /\ (call.op = "resolve_product"
            /\ call.arg \notin products_visible_to_user(CallUser)) =>
          call.ret = None
    /\ (call.op = "resolve_attributes" /\ call.arg \notin Category) =>
          call.ret.status # "raise"

(* C5: resolve_product returns the product exactly when it is visible to   *)
(* the requesting user, and None otherwise.                                *)
C5_VisibleOnly ==
    call.op = "resolve_product" =>
        /\ call.arg \in visible[CallUser] => call.ret = OkObject(call.arg)
        /\ call.arg \notin visible[CallUser] => call.ret = None

(* A stored product, visible to the other user, was asked for by a user   *)
(* who may not see it.                                                     *)
C5_Witness ==
    /\ call.op = "resolve_product"
    /\ call.arg \in Product
    /\ call.arg \notin visible[CallUser]
    /\ \E u \in User : call.arg \in visible[u]
    /\ call.ret = None

(* C6: resolve_attributes(pk) of a stored category returns exactly the     *)
(* attributes associated, as product or as variant attribute, with a       *)
(* product type of a product of the category's subtree (self included),    *)
(* each in one row.                                                        *)
C6_AttributesOfSubtree ==
    (call.op = "resolve_attributes" /\ call.arg \in Category) =>
        LET used == {products[p].product_type :
                         p \in {q \in Product :
                                    products[q].category \in Subtree(call.arg)}}
            expected == {a \in Attribute :
                             \/ product_types[a] \cap used # {}
                             \/ product_variant_types[a] \cap used # {}}
        IN /\ call.ret.status = "ok"
           /\ Range(call.ret.rows) = expected
           /\ Len(call.ret.rows) = Cardinality(expected)

(* An attribute reached through both associations, by a product of the     *)
(* category asked for, is in the result.                                   *)
C6_Witness ==
    /\ call.op = "resolve_attributes"
    /\ call.arg \in Category
    /\ \E a \in Range(call.ret.rows), p \in Product :
          /\ products[p].category \in Subtree(call.arg)
          /\ products[p].product_type \in product_types[a]
          /\ products[p].product_type \in product_variant_types[a]
          /\ Cardinality(product_variant_types[a]) > 1

(* C7: resolve_attributes(None) returns every stored attribute in exactly  *)
(* one row, whatever it is associated with.                                *)
C7_AllAttributesOnce ==
    (call.op = "resolve_attributes" /\ call.arg = NoPk) =>
        /\ call.ret.status = "ok"
        /\ Range(call.ret.rows) = Attribute
        /\ Len(call.ret.rows) = Cardinality(Attribute)

(* All attributes were asked for while one of them is associated with     *)
(* several product types and also as a variant attribute.                  *)
C7_Witness ==
    /\ call.op = "resolve_attributes"
    /\ call.arg = NoPk
    /\ \E a \in Attribute :
          Cardinality(product_types[a]) > 1 /\ product_variant_types[a] # {}
    /\ call.ret.rows # <<>>

(* C8: a step on one context leaves every other context, and every cached  *)
(* lookup on it, as it was.                                                *)
C8_OtherContextsUntouched ==
    [][\A b \in Context : b # call'.ctx =>
          /\ contexts'[b] = contexts[b]
          /\ \A C \in Category :
                get_ancestors_from_cache(C, contexts'[b])
                    = get_ancestors_from_cache(C, contexts[b])]_vars

(* resolve_category has just set a cache on one context while the other    *)
(* context has none.                                                       *)
C8_Witness ==
    /\ call.op = "resolve_category"
    /\ call.ret.status = "ok"
    /\ contexts[call.ctx].has_cache
    /\ \E b \in Context : b # call.ctx /\ ~contexts[b].has_cache

(* C9: Category.resolve_products returns exactly the products visible to   *)
(* the requesting user whose category is the category itself.              *)
C9_VisibleProductsOfCategory ==
    call.op = "resolve_products" =>
        /\ call.ret.status = "ok"
        /\ \A p \in call.ret.products :
              p \in visible[CallUser] /\ products[p].category = call.arg
        /\ \A p \in Product :
              (p \in visible[CallUser] /\ products[p].category = call.arg)
                  => p \in call.ret.products

(* A visible product of a descendant category and an invisible product of  *)
(* the category itself were both left out.                                 *)
C9_Witness ==
    /\ call.op = "resolve_products"
    /\ \E p \in Product :
          /\ p \in visible[CallUser]
          /\ products[p].category \in Subtree(call.arg) \ {call.arg}
          /\ p \notin call.ret.products
    /\ \E p \in Product :
          /\ p \notin visible[CallUser]
          /\ products[p].category = call.arg
          /\ p \notin call.ret.products

(* C10: a resolve_category call whose identifier matches no category       *)
(* returns None and leaves every context, and so every cached lookup, as   *)
(* it was.                                                                 *)
C10_FailedLookupKeepsContext ==
    [][(call'.op = "resolve_category" /\ call'.arg \notin Category) =>
          /\ call'.ret = None
          /\ contexts' = contexts
          /\ \A c \in Context, C \in Category :
                get_ancestors_from_cache(C, contexts'[c])
                    = get_ancestors_from_cache(C, contexts[c])]_vars

(* A failed lookup on a context that keeps the cache of an earlier one.    *)
C10_Witness ==
    /\ call.op = "resolve_category"
    /\ call.arg \notin Category
    /\ call.ret = None
    /\ contexts[call.ctx].has_cache

====
